---------------------------- MODULE Spec2Model ----------------------------
(***************************************************************************)
(* A model of the round-robin request queue of scrapy/pqueues.py:          *)
(* RoundRobinQueue (a rotation of slot keys plus one priority queue per    *)
(* slot), PriorityAsTupleQueue (queuelib's PriorityQueue with tuple        *)
(* priorities) and the slot resolver scheduler_slot; of the unique-path    *)
(* wrapper unique_files_queue of scrapy/core/queues.py; and of the pop of  *)
(* the downloader-aware queue, which the tests name.                       *)
(*                                                                         *)
(* Python values are modelled as follows.  A dict is a TLA+ function whose *)
(* domain is the dict's key set; None is NoneVal, NoKey or NoRequest by    *)
(* the kind of value it stands in for; a request is                        *)
(* a record [cls, fields] where cls is the Python class of the object and  *)
(* fields holds its attributes (Request) or its items (dict).  A priority  *)
(* key is the tuple <<priority, slot path>> that RoundRobinQueue.push      *)
(* hands to the slot's priority queue.  The container that the queue       *)
(* factory returns for a priority key is modelled by store[key], the       *)
(* sequence of the entries it holds.                                       *)
(***************************************************************************)
EXTENDS Integers, Sequences, FiniteSets, TLC

(***************************************************************************)
(* Bounds of the model.                                                    *)
(***************************************************************************)
\* push calls of one run of Spec
MaxPush == 3
\* push calls of one run of SpecRR
MaxPushRR == 4
\* push calls of one run of SpecPrio
MaxPushPrio == 5
\* push calls of one run of SpecTie
MaxPushTie == 4
\* push calls of one run of SpecDA
MaxPushDA == 4
\* requests in transit at one time in SpecDA
MaxInflight == 3
\* close calls of one run
MaxClose == 1
\* pops of one record of SpecRR
MaxHist == 5
\* the priorities of SpecPrio are -MaxPrio .. MaxPrio
MaxPrio == 2

(***************************************************************************)
(* Python values.                                                          *)
(***************************************************************************)
\* None where a string is expected (a slot, a URL, a host name)
NoneVal == "<None>"

\* None where a priority key is expected (curprio)
NoKey == <<>>

\* None where a request is expected (what pop returns when it has nothing)
NoRequest == [cls |-> "NoneType"]

EmptyDict == [k \in {} |-> NoneVal]

\* pqueues.py:15, Downloader.DOWNLOAD_SLOT
SCHEDULER_SLOT_META_KEY == "download_slot"

Priorities == (0 - MaxPrio) .. MaxPrio

\* the priorities pushed in Spec
TwoPriorities == {0, 1}

\* the priority pushed in SpecRR (the default priority of a Request)
OnePriority == {0}

\* dict.get(key, default)
DictGet(d, key, default) == IF key \in DOMAIN d THEN d[key] ELSE default

\* d[key] = value on a dict
DictSet(d, key, value) ==
    [k \in DOMAIN d \cup {key} |-> IF k = key THEN value ELSE d[k]]

(***************************************************************************)
(* The requests of the model: structured Request objects, plain mappings   *)
(* with and without a 'meta' item, and an object that is neither.          *)
(***************************************************************************)
MkRequest(url, meta) == [cls |-> "Request", fields |-> [url |-> url, meta |-> meta]]

MkDict(url, meta) == [cls |-> "dict", fields |-> [url |-> url, meta |-> meta]]

MkDictNoMeta(url) == [cls |-> "dict", fields |-> [url |-> url]]

MkOther(url) == [cls |-> "str", fields |-> [url |-> url]]

SlotMeta(slot) == [download_slot |-> slot]

ReqA == MkRequest("http://foo.com/a", SlotMeta("a"))

ReqB == MkRequest("http://foo.com/b", SlotMeta("b:80"))

ReqHost == MkRequest("http://FOO.com/c", EmptyDict)

ReqDict == MkDict("http://foo.com/d", EmptyDict)

ReqDictNoMeta == MkDictNoMeta("nohost")

ReqOther == MkOther("http://foo.com/f")

Requests == {ReqA, ReqB, ReqHost, ReqDict, ReqDictNoMeta, ReqOther}

\* the requests pushed in Spec: a Request, a mapping with and one without 'meta',
\* and an object that is neither
SpecRequests == {ReqA, ReqDict, ReqDictNoMeta, ReqOther}

\* the requests pushed in SpecRR: three slots
RRRequests == {ReqA, ReqB, ReqHost}

\* two more requests of slot "a"
ReqA2 == MkRequest("http://foo.com/b", SlotMeta("a"))

ReqA3 == MkRequest("http://foo.com/d", SlotMeta("a"))

\* the requests pushed in SpecTie: one slot, three requests
TieRequests == {ReqA, ReqA2, ReqA3}

\* the requests pushed in SpecDA: four slots
DARequests == {ReqA, ReqB, ReqHost, ReqDictNoMeta}

\* the requests pushed in SpecPrio: one slot
PrioRequests == {ReqA}

(***************************************************************************)
(* urlparse(url).hostname of the URLs of the model: the host part in lower *)
(* case, None when the URL has no network location.                        *)
(***************************************************************************)
Hostname(url) ==
    CASE url = "http://foo.com/a" -> "foo.com"
      [] url = "http://foo.com/b" -> "foo.com"
      [] url = "http://FOO.com/c" -> "foo.com"
      [] url = "http://foo.com/d" -> "foo.com"
      [] url = "http://foo.com/f" -> "foo.com"
      [] OTHER -> NoneVal

\* a variant of GetFromRequestRaises: _get_from_request without its final raise
GetFromRequestNeverRaises(request) == FALSE

\* pqueues.py:18-25: the request kinds _get_from_request accepts
GetFromRequestRaises(request) == request.cls \notin {"dict", "Request"}

\* pqueues.py:18-23: request.get(key, default) / getattr(request, key, default)
GetFromRequest(request, key, default) == DictGet(request.fields, key, default)

(***************************************************************************)
(* scheduler_slot(request), pqueues.py:28-37.  The result is               *)
(* [raised, slot, request]: raised when _get_from_request rejects the      *)
(* object; slot is the value returned; request is the object as the call   *)
(* leaves it.  meta[KEY] = slot writes into the mapping that               *)
(* _get_from_request returned: the request's own mapping when it has one,  *)
(* the fresh default dict() otherwise, which nobody else holds.            *)
(***************************************************************************)
SchedulerSlotOwnMeta(request, slot) ==
    IF "meta" \in DOMAIN request.fields
    THEN [request EXCEPT !.fields.meta =
              DictSet(request.fields.meta, SCHEDULER_SLOT_META_KEY, slot)]
    ELSE request

scheduler_slot(request) ==
    IF GetFromRequestRaises(request)
    THEN [raised |-> TRUE, slot |-> NoneVal, request |-> request]
    ELSE LET meta == GetFromRequest(request, "meta", EmptyDict)
             slot == DictGet(meta, SCHEDULER_SLOT_META_KEY, NoneVal)
         IN IF slot = NoneVal
            THEN LET url == GetFromRequest(request, "url", NoneVal)
                     host == Hostname(url)
                     derived == IF host = NoneVal THEN "" ELSE host
                 IN [raised |-> FALSE, slot |-> derived,
                     request |-> SchedulerSlotOwnMeta(request, derived)]
            ELSE [raised |-> FALSE, slot |-> slot, request |-> request]

\* the slot keys the requests of the model resolve to
AllSlots == { scheduler_slot(r).slot : r \in {x \in Requests : ~GetFromRequestRaises(x)} }

(***************************************************************************)
(* _slot_as_path(slot), pqueues.py:40-49: the slot with every character    *)
(* that is not alphanumeric or one of "-._" replaced by "_", joined to the *)
(* md5 digest of the slot.  The digest is modelled as the tagged slot      *)
(* (distinct slots have distinct digests).                                 *)
(***************************************************************************)
PathableSlot(slot) == IF slot = "b:80" THEN "b_80" ELSE slot

Md5(slot) == <<"md5", slot>>

SlotAsPath(slot) == <<PathableSlot(slot), Md5(slot)>>

AllKeys == { <<p, SlotAsPath(s)>> : p \in Priorities, s \in AllSlots }

(***************************************************************************)
(* Order of priority keys: Python's tuple order, the priority first, then  *)
(* the slot path (the sanitized slot, then the digest).  PathRank is the   *)
(* rank of a slot path among the slot paths of the model in string order.  *)
(***************************************************************************)
PathRank(path) ==
    CASE path = SlotAsPath("") -> 0
      [] path = SlotAsPath("a") -> 1
      [] path = SlotAsPath("b:80") -> 2
      [] path = SlotAsPath("foo.com") -> 3
      [] OTHER -> 4

KeyLess(k1, k2) ==
    \/ k1[1] < k2[1]
    \/ k1[1] = k2[1] /\ PathRank(k1[2]) < PathRank(k2[2])

\* a variant of MinKey: max(prios)
MaxKey(prios) == CHOOSE k \in prios : \A o \in prios : o = k \/ KeyLess(o, k)

\* min(prios) of a non-empty collection of priority keys
MinKey(prios) == CHOOSE k \in prios : \A o \in prios : o = k \/ KeyLess(k, o)

\* pqueues.py:60 and queuelib's pop: min(prios) if prios else None
MinKeyOrNone(prios) == IF prios = {} THEN NoKey ELSE MinKey(prios)

(***************************************************************************)
(* The queue factory and the containers it returns.  backend is "memory"   *)
(* or "disk", order is "fifo" or "lifo".  A memory container starts empty  *)
(* whenever it is created; a disk container is attached to the file named  *)
(* after the priority key and holds what that file holds.  The factory and *)
(* the container classes are outside pqueues.py and core/queues.py; they   *)
(* are written down as the specification describes them: push/pop-capable  *)
(* containers whose tie-break is insertion order (fifo) or reverse         *)
(* insertion order (lifo), the same on memory and on disk.                 *)
(***************************************************************************)
Qfactory(backend, store, key) ==
    IF backend = "memory" THEN [store EXCEPT ![key] = <<>>] ELSE store

\* q.push(obj) of a fifo or lifo container
QPush(entries, obj) == Append(entries, obj)

\* the object q.pop() returns: the oldest (fifo) or newest (lifo) entry, None when empty
QPopped(order, entries) ==
    IF entries = <<>> THEN NoRequest
    ELSE IF order = "fifo" THEN Head(entries) ELSE entries[Len(entries)]

\* the entries q.pop() leaves
QPopRest(order, entries) ==
    IF entries = <<>> THEN <<>>
    ELSE IF order = "fifo" THEN Tail(entries)
         ELSE SubSeq(entries, 1, Len(entries) - 1)

(***************************************************************************)
(* PriorityAsTupleQueue, pqueues.py:52-60, a queuelib PriorityQueue: a     *)
(* record [queues, curprio], queues the priority keys that have a          *)
(* container (the keys of self.queues) and curprio the key served next.    *)
(***************************************************************************)
\* pqueues.py:54-60
PQInit(backend, store, startprios) ==
    [pq |-> [queues |-> startprios, curprio |-> MinKeyOrNone(startprios)],
     store |-> [k \in DOMAIN store |->
                  IF k \in startprios THEN Qfactory(backend, store, k)[k] ELSE store[k]]]

RECURSIVE SumLen(_, _)
SumLen(store, keys) ==
    IF keys = {} THEN 0
    ELSE LET k == CHOOSE x \in keys : TRUE
         IN Len(store[k]) + SumLen(store, keys \ {k})

\* len(queue): the entries of all the containers of the queue
PQLen(pq, store) == SumLen(store, pq.queues)

(***************************************************************************)
(* push(obj, priority): the container of the priority is created when      *)
(* missing, then obj is pushed to it, which may fail (a request the disk   *)
(* container cannot serialize, a write error); only after a successful     *)
(* push is curprio lowered.  fail says whether the container's push fails. *)
(***************************************************************************)
PQPush(backend, pq, store, obj, key, fail) ==
    LET created == IF key \in pq.queues THEN store ELSE Qfactory(backend, store, key)
        queues == pq.queues \cup {key}
    IN IF fail
       THEN [pq |-> [pq EXCEPT !.queues = queues], store |-> created, raised |-> TRUE]
       ELSE [pq |-> [queues |-> queues,
                     curprio |-> IF pq.curprio = NoKey \/ KeyLess(key, pq.curprio)
                                 THEN key ELSE pq.curprio],
             store |-> [created EXCEPT ![key] = QPush(created[key], obj)],
             raised |-> FALSE]

(***************************************************************************)
(* pop(): nothing when curprio is None; otherwise one entry of curprio's   *)
(* container, and when that leaves the container empty the container is    *)
(* dropped and curprio becomes the least key with entries, if any.         *)
(***************************************************************************)
PQPop(order, pq, store) ==
    IF pq.curprio = NoKey
    THEN [pq |-> pq, store |-> store, m |-> NoRequest, key |-> NoKey]
    ELSE LET q == store[pq.curprio]
             rest == QPopRest(order, q)
             store2 == [store EXCEPT ![pq.curprio] = rest]
             queues == pq.queues \ {pq.curprio}
             prios == {p \in queues : Len(store2[p]) > 0}
         IN [pq |-> IF Len(rest) = 0
                    THEN [queues |-> queues, curprio |-> MinKeyOrNone(prios)]
                    ELSE pq,
             store |-> store2,
             m |-> QPopped(order, q),
             key |-> pq.curprio]

\* close(): the priority keys whose container still has entries
PQClose(pq, store) == {p \in pq.queues : Len(store[p]) > 0}

(***************************************************************************)
(* RoundRobinQueue, pqueues.py:63-114.  q is the record                    *)
(* [slots, pqorder, pqueues, store]: slots is the deque _slots, pqueues    *)
(* the dict slot -> priority queue, pqorder the keys of that dict in       *)
(* insertion order (the order .items() yields), store the containers.      *)
(***************************************************************************)
EmptyPqueues == [s \in {} |-> NoneVal]

\* del seq[i]
RemoveAt(seq, i) == SubSeq(seq, 1, i - 1) \o SubSeq(seq, i + 1, Len(seq))

\* the dict key order after del d[key]
DictDel(keyorder, key) ==
    IF \E i \in 1 .. Len(keyorder) : keyorder[i] = key
    THEN RemoveAt(keyorder, CHOOSE i \in 1 .. Len(keyorder) : keyorder[i] = key)
    ELSE keyorder

\* a variant of RRLen: the number of active slots instead of the number of entries
RRLenCountsSlots(q) == Cardinality(DOMAIN q.pqueues)

\* pqueues.py:113-114
RRLen(q) ==
    LET RECURSIVE Sum(_)
        Sum(ss) == IF ss = {} THEN 0
                   ELSE LET s == CHOOSE x \in ss : TRUE
                        IN PQLen(q.pqueues[s], q.store) + Sum(ss \ {s})
    IN Sum(DOMAIN q.pqueues)

(***************************************************************************)
(* Snapshots (the startprios argument): a record [kind, keys, prios,       *)
(* items].  kind "dict": the mapping with key order keys and values prios  *)
(* (the priority keys of each slot; the lists of a JSON file, which        *)
(* tuple(x) turns back into tuples).  kind "list": the flat list items of  *)
(* priorities that a plain queuelib PriorityQueue writes.                  *)
(***************************************************************************)
DictSnapshot(keys, prios) ==
    [kind |-> "dict", keys |-> keys, prios |-> prios, items |-> <<>>]

ListSnapshot(items) ==
    [kind |-> "list", keys |-> <<>>, prios |-> EmptyPqueues, items |-> items]

\* Python truth value of a snapshot: an empty dict or list is false
Truthy(startprios) ==
    IF startprios.kind = "dict" THEN Len(startprios.keys) > 0
    ELSE Len(startprios.items) > 0

\* pqueues.py:79-81, the loop over startprios.items() from item i on
RECURSIVE RRInitLoop(_, _, _, _)
RRInitLoop(backend, q, startprios, i) ==
    IF i > Len(startprios.keys) THEN q
    ELSE LET slot == startprios.keys[i]
             r == PQInit(backend, q.store, startprios.prios[slot])
         IN RRInitLoop(backend,
                       [slots |-> Append(q.slots, slot),
                        pqorder |-> IF slot \in DOMAIN q.pqueues THEN q.pqorder
                                    ELSE Append(q.pqorder, slot),
                        pqueues |-> DictSet(q.pqueues, slot, r.pq),
                        store |-> r.store],
                       startprios, i + 1)

\* a variant of RRInit: the isinstance check of pqueues.py:73-77 left out
RRInitNoTypeCheck(backend, store, startprios) ==
    [raised |-> FALSE,
     q |-> RRInitLoop(backend,
                      [slots |-> <<>>, pqorder |-> <<>>, pqueues |-> EmptyPqueues,
                       store |-> store],
                      startprios, 1)]

\* pqueues.py:65-81: [raised, q]
RRInit(backend, store, startprios) ==
    LET empty == [slots |-> <<>>, pqorder |-> <<>>, pqueues |-> EmptyPqueues,
                  store |-> store]
    IN IF ~Truthy(startprios) THEN [raised |-> FALSE, q |-> empty]
       ELSE IF startprios.kind # "dict" THEN [raised |-> TRUE, q |-> empty]
       ELSE [raised |-> FALSE, q |-> RRInitLoop(backend, empty, startprios, 1)]

\* a variant of RRPush: a new slot is put at the head of the rotation (appendleft)
RRPushAtHead(backend, q, request, priority, fail) ==
    LET ss == scheduler_slot(request)
    IN IF ss.raised
       THEN [raised |-> "ValueError", q |-> q, slot |-> NoneVal, key |-> NoKey,
             request |-> request]
       ELSE LET slot == ss.slot
                isnew == slot \notin DOMAIN q.pqueues
                pq0 == IF isnew THEN PQInit(backend, q.store, {}).pq
                       ELSE q.pqueues[slot]
                key == <<priority, SlotAsPath(slot)>>
                r == PQPush(backend, pq0, q.store, ss.request, key, fail)
            IN [raised |-> IF r.raised THEN "PushError" ELSE "",
                q |-> [slots |-> IF isnew THEN <<slot>> \o q.slots ELSE q.slots,
                       pqorder |-> IF isnew THEN Append(q.pqorder, slot) ELSE q.pqorder,
                       pqueues |-> DictSet(q.pqueues, slot, r.pq),
                       store |-> r.store],
                slot |-> slot, key |-> key, request |-> ss.request]

\* a variant of RRPush: the slot is appended to the rotation on every push
RRPushAlwaysAppends(backend, q, request, priority, fail) ==
    LET ss == scheduler_slot(request)
    IN IF ss.raised
       THEN [raised |-> "ValueError", q |-> q, slot |-> NoneVal, key |-> NoKey,
             request |-> request]
       ELSE LET slot == ss.slot
                isnew == slot \notin DOMAIN q.pqueues
                pq0 == IF isnew THEN PQInit(backend, q.store, {}).pq
                       ELSE q.pqueues[slot]
                key == <<priority, SlotAsPath(slot)>>
                r == PQPush(backend, pq0, q.store, ss.request, key, fail)
            IN [raised |-> IF r.raised THEN "PushError" ELSE "",
                q |-> [slots |-> Append(q.slots, slot),
                       pqorder |-> IF isnew THEN Append(q.pqorder, slot) ELSE q.pqorder,
                       pqueues |-> DictSet(q.pqueues, slot, r.pq),
                       store |-> r.store],
                slot |-> slot, key |-> key, request |-> ss.request]

(***************************************************************************)
(* push, pqueues.py:83-89: [raised, q, slot, key, request].  raised is     *)
(* "ValueError" when scheduler_slot rejects the request (before anything   *)
(* is touched), "PushError" when the container's push fails (after the     *)
(* slot was created and put in the rotation), "" otherwise.                 *)
(***************************************************************************)
RRPush(backend, q, request, priority, fail) ==
    LET ss == scheduler_slot(request)
    IN IF ss.raised
       THEN [raised |-> "ValueError", q |-> q, slot |-> NoneVal, key |-> NoKey,
             request |-> request]
       ELSE LET slot == ss.slot
                isnew == slot \notin DOMAIN q.pqueues
                pq0 == IF isnew THEN PQInit(backend, q.store, {}).pq
                       ELSE q.pqueues[slot]
                key == <<priority, SlotAsPath(slot)>>
                r == PQPush(backend, pq0, q.store, ss.request, key, fail)
            IN [raised |-> IF r.raised THEN "PushError" ELSE "",
                q |-> [slots |-> IF isnew THEN Append(q.slots, slot) ELSE q.slots,
                       pqorder |-> IF isnew THEN Append(q.pqorder, slot) ELSE q.pqorder,
                       pqueues |-> DictSet(q.pqueues, slot, r.pq),
                       store |-> r.store],
                slot |-> slot, key |-> key, request |-> ss.request]

\* a variant of RRPop: the slot is retired after every pop, whether its queue
\* still has entries or not (the test of len(queue) left out)
RRPopAlwaysRetires(order, q) ==
    IF q.slots = <<>>
    THEN [q |-> q, request |-> NoRequest, slot |-> NoneVal, key |-> NoKey]
    ELSE LET slot == Head(q.slots)
             r == PQPop(order, q.pqueues[slot], q.store)
         IN [q |-> [slots |-> Tail(q.slots),
                    pqorder |-> DictDel(q.pqorder, slot),
                    pqueues |-> [s \in DOMAIN q.pqueues \ {slot} |-> q.pqueues[s]],
                    store |-> r.store],
             request |-> r.m, slot |-> slot, key |-> r.key]

\* a variant of RRPop: the priority queue of a slot that has become empty stays in
\* pqueues (no del self.pqueues[slot])
RRPopKeepsQueue(order, q) ==
    IF q.slots = <<>>
    THEN [q |-> q, request |-> NoRequest, slot |-> NoneVal, key |-> NoKey]
    ELSE LET slot == Head(q.slots)
             r == PQPop(order, q.pqueues[slot], q.store)
             keep == PQLen(r.pq, r.store) > 0
         IN [q |-> [slots |-> IF keep THEN Append(Tail(q.slots), slot)
                              ELSE Tail(q.slots),
                    pqorder |-> q.pqorder,
                    pqueues |-> [q.pqueues EXCEPT ![slot] = r.pq],
                    store |-> r.store],
             request |-> r.m, slot |-> slot, key |-> r.key]

\* a variant of RRPop: the slot is taken from the tail of the rotation (pop)
RRPopFromTail(order, q) ==
    IF q.slots = <<>>
    THEN [q |-> q, request |-> NoRequest, slot |-> NoneVal, key |-> NoKey]
    ELSE LET slot == q.slots[Len(q.slots)]
             rest == SubSeq(q.slots, 1, Len(q.slots) - 1)
             r == PQPop(order, q.pqueues[slot], q.store)
             keep == PQLen(r.pq, r.store) > 0
         IN [q |-> [slots |-> IF keep THEN Append(rest, slot) ELSE rest,
                    pqorder |-> IF keep THEN q.pqorder ELSE DictDel(q.pqorder, slot),
                    pqueues |-> IF keep THEN [q.pqueues EXCEPT ![slot] = r.pq]
                                ELSE [s \in DOMAIN q.pqueues \ {slot} |-> q.pqueues[s]],
                    store |-> r.store],
             request |-> r.m, slot |-> slot, key |-> r.key]

(***************************************************************************)
(* pop, pqueues.py:91-102: [q, request, slot, key].  request is the value  *)
(* returned (None when the rotation is empty or the slot's queue yields    *)
(* nothing), slot the slot taken from the head of the rotation, key the    *)
(* priority key the entry was stored under.                                *)
(***************************************************************************)
RRPop(order, q) ==
    IF q.slots = <<>>
    THEN [q |-> q, request |-> NoRequest, slot |-> NoneVal, key |-> NoKey]
    ELSE LET slot == Head(q.slots)
             r == PQPop(order, q.pqueues[slot], q.store)
             keep == PQLen(r.pq, r.store) > 0
         IN [q |-> [slots |-> IF keep THEN Append(Tail(q.slots), slot)
                              ELSE Tail(q.slots),
                    pqorder |-> IF keep THEN q.pqorder ELSE DictDel(q.pqorder, slot),
                    pqueues |-> IF keep THEN [q.pqueues EXCEPT ![slot] = r.pq]
                                ELSE [s \in DOMAIN q.pqueues \ {slot} |-> q.pqueues[s]],
                    store |-> r.store],
             request |-> r.m, slot |-> slot, key |-> r.key]

\* a variant of RRClose: the snapshot is collected in the order of the rotation
RRCloseInRotationOrder(backend, q) ==
    [q |-> [slots |-> <<>>, pqorder |-> <<>>, pqueues |-> EmptyPqueues,
            store |-> IF backend = "memory" THEN [k \in DOMAIN q.store |-> <<>>]
                      ELSE q.store],
     startprios |-> DictSnapshot(q.slots,
                        [s \in DOMAIN q.pqueues |-> PQClose(q.pqueues[s], q.store)])]

\* a variant of RRClose: pqueues cleared before the snapshot is collected
RRCloseClearsFirst(backend, q) ==
    [q |-> [slots |-> <<>>, pqorder |-> <<>>, pqueues |-> EmptyPqueues,
            store |-> IF backend = "memory" THEN [k \in DOMAIN q.store |-> <<>>]
                      ELSE q.store],
     startprios |-> DictSnapshot(<<>>, EmptyPqueues)]

(***************************************************************************)
(* close, pqueues.py:104-111: [q, startprios].  The priority queues and    *)
(* the rotation are cleared; the memory containers go with the priority    *)
(* queues that held them, the disk containers keep their entries on disk.  *)
(***************************************************************************)
RRClose(backend, q) ==
    [q |-> [slots |-> <<>>, pqorder |-> <<>>, pqueues |-> EmptyPqueues,
            store |-> IF backend = "memory" THEN [k \in DOMAIN q.store |-> <<>>]
                      ELSE q.store],
     startprios |-> DictSnapshot(q.pqorder,
                        [s \in DOMAIN q.pqueues |-> PQClose(q.pqueues[s], q.store)])]

(***************************************************************************)
(* The state machine: one RoundRobinQueue driven by push, pop, close and   *)
(* construction from a snapshot.                                           *)
(*   backend, tiebreak  the containers the queue factory makes             *)
(*   alive              whether a constructed queue exists                 *)
(*   slots, pqorder, pqueues   the fields of the queue                     *)
(*   store              the containers' entries, by priority key           *)
(*   snap               what the last close() returned, while nothing was  *)
(*                      pushed or popped since                             *)
(*   closed             close() was called on the queue object; push, pop  *)
(*                      and close test nothing of the kind, so a closed    *)
(*                      queue takes every call as an empty queue does      *)
(*   reused             some queue of the run was pushed to or closed      *)
(*                      again after its close()                            *)
(*   last               the last call, its argument and its outcome        *)
(*   nPush, nClose      calls made, for the bounds                         *)
(*   nPushed, nPopped   pushes that stored a request, pops that returned   *)
(*                      one                                                *)
(*   hist               (SpecRR) the pops of a non-empty rotation made     *)
(*                      since the last call that was not a pop, each with  *)
(*                      the rotation and the sizes of the slots' queues    *)
(*                      it found; the record starts again after MaxHist    *)
(*                      pops                                               *)
(*   preClose           the queue as the last close() found it, until the  *)
(*                      next push or pop (Spec) or the next push (SpecRR)  *)
(*   twin               (SpecTie) q: a queue over the other backend that   *)
(*                      is given the same calls; pending, other: the       *)
(*                      requests that the queue and that twin.q accepted   *)
(*                      and have not returned, in the order of the pushes  *)
(*   files, creators    (SpecUnique) the paths that exist on disk, and the *)
(*                      runs of UniqueFilesQueue.__init__ under way        *)
(*   inflight           (SpecDA) the requests in transit, by slot          *)
(***************************************************************************)
VARIABLES backend, tiebreak, alive, closed, reused, slots, pqorder, pqueues,
          store, snap,
          last, nPush, nClose, nPushed, nPopped, hist, preClose,
          twin, files, creators, inflight

vars == <<backend, tiebreak, alive, closed, reused, slots, pqorder, pqueues,
          store, snap,
          last, nPush, nClose, nPushed, nPopped, hist, preClose,
          twin, files, creators, inflight>>

Q == [slots |-> slots, pqorder |-> pqorder, pqueues |-> pqueues, store |-> store]

NoSnap == [kind |-> "none", keys |-> <<>>, prios |-> EmptyPqueues, items |-> <<>>]

NoQ == [slots |-> <<>>, pqorder |-> <<>>, pqueues |-> EmptyPqueues,
        store |-> [k \in {} |-> <<>>]]

\* the values of twin, creators and inflight in the specifications without them
NoTwin == [q |-> NoQ, pending |-> <<>>, other |-> <<>>]

NoCreators == [p \in {} |-> NoneVal]

NoInflight == [s \in {} |-> 0]

\* the flat lists of priorities of a job directory written by a plain PriorityQueue
LegacySnapshots == { ListSnapshot(<<>>), ListSnapshot(<<0>>), ListSnapshot(<<0, 1>>) }

Call(op, arg, raised, request, slot, key) ==
    [op |-> op, arg |-> arg, raised |-> raised, request |-> request,
     slot |-> slot, key |-> key]

SetQ(q) ==
    /\ slots' = q.slots
    /\ pqorder' = q.pqorder
    /\ pqueues' = q.pqueues
    /\ store' = q.store

InitWith(backends, tiebreaks) ==
    /\ backend \in backends
    /\ tiebreak \in tiebreaks
    /\ alive = TRUE
    /\ closed = FALSE
    /\ reused = FALSE
    /\ slots = <<>>
    /\ pqorder = <<>>
    /\ pqueues = EmptyPqueues
    /\ store = [k \in AllKeys |-> <<>>]
    /\ snap = NoSnap
    /\ last = Call("init", DictSnapshot(<<>>, EmptyPqueues), "", NoRequest, NoneVal, NoKey)
    /\ nPush = 0
    /\ nClose = 0
    /\ nPushed = 0
    /\ nPopped = 0
    /\ hist = <<>>
    /\ preClose = NoQ

\* push(request, priority); fail: the container's push fails (disk only)
Push(request, priority, fail) ==
    /\ alive
    /\ fail => backend = "disk"
    /\ LET r == RRPush(backend, Q, request, priority, fail)
       IN /\ SetQ(r.q)
          /\ last' = Call("push", NoSnap, r.raised, r.request, r.slot, r.key)
          /\ nPushed' = IF r.raised = "" THEN nPushed + 1 ELSE nPushed
    /\ nPush' = nPush + 1
    /\ snap' = NoSnap
    /\ reused' = (reused \/ closed)
    /\ UNCHANGED <<backend, tiebreak, alive, closed, nClose, nPopped>>

\* pop()
Pop ==
    /\ alive
    /\ LET r == RRPop(tiebreak, Q)
       IN /\ SetQ(r.q)
          /\ last' = Call("pop", NoSnap, "", r.request, r.slot, r.key)
          /\ nPopped' = IF r.request # NoRequest THEN nPopped + 1 ELSE nPopped
    /\ snap' = NoSnap
    /\ UNCHANGED <<backend, tiebreak, alive, closed, reused, nPush, nClose, nPushed>>

\* close()
Close ==
    /\ alive
    /\ nClose < MaxClose
    /\ LET r == RRClose(backend, Q)
       IN /\ SetQ(r.q)
          /\ snap' = r.startprios
    /\ last' = Call("close", NoSnap, "", NoRequest, NoneVal, NoKey)
    /\ nClose' = nClose + 1
    /\ closed' = TRUE
    /\ reused' = (reused \/ closed)
    /\ UNCHANGED <<backend, tiebreak, alive, nPush, nPushed, nPopped>>

\* RoundRobinQueue(qfactory, startprios): the new queue replaces the old one; the
\* memory containers of the old queue go with it, the files on disk stay
Construct(startprios) ==
    /\ LET left == IF backend = "memory" THEN [k \in DOMAIN store |-> <<>>]
                   ELSE store
           r == RRInit(backend, left, startprios)
       IN /\ SetQ(r.q)
          /\ alive' = ~r.raised
          /\ last' = Call("init", startprios, IF r.raised THEN "ValueError" ELSE "",
                          NoRequest, NoneVal, NoKey)
    /\ snap' = NoSnap
    /\ closed' = FALSE
    /\ UNCHANGED <<backend, tiebreak, reused, nPush, nClose, nPushed, nPopped>>

\* reopen from the snapshot the last close() returned
Reopen ==
    /\ snap # NoSnap
    /\ Construct(snap)

\* start on a job directory that a plain PriorityQueue left behind
Migrate ==
    /\ pqueues = EmptyPqueues
    /\ \A k \in AllKeys : store[k] = <<>>
    /\ \E sp \in LegacySnapshots : Construct(sp)

(***************************************************************************)
(* Spec: every kind of request, two priorities.                            *)
(***************************************************************************)
Init ==
    /\ InitWith({"memory", "disk"}, {"fifo"})
    /\ twin = NoTwin
    /\ files = {}
    /\ creators = NoCreators
    /\ inflight = NoInflight

DoPush ==
    /\ nPush < MaxPush
    /\ \E request \in SpecRequests, priority \in TwoPriorities, fail \in BOOLEAN :
          Push(request, priority, fail)
    /\ preClose' = NoQ
    /\ UNCHANGED hist
    /\ UNCHANGED <<twin, files, creators, inflight>>

DoPop ==
    /\ Pop
    /\ preClose' = NoQ
    /\ UNCHANGED hist
    /\ UNCHANGED <<twin, files, creators, inflight>>

DoClose ==
    /\ Close
    /\ preClose' = Q
    /\ UNCHANGED hist
    /\ UNCHANGED <<twin, files, creators, inflight>>

DoReopen ==
    /\ Reopen
    /\ UNCHANGED <<hist, preClose>>
    /\ UNCHANGED <<twin, files, creators, inflight>>

DoMigrate ==
    /\ Migrate
    /\ preClose' = NoQ
    /\ UNCHANGED hist
    /\ UNCHANGED <<twin, files, creators, inflight>>

Next == DoPush \/ DoPop \/ DoClose \/ DoReopen \/ DoMigrate

Spec == Init /\ [][Next]_vars

(***************************************************************************)
(* SpecPrio: pushes into one slot, with a priority no stored entry has.    *)
(***************************************************************************)
InitPrio ==
    /\ InitWith({"memory", "disk"}, {"fifo", "lifo"})
    /\ twin = NoTwin
    /\ files = {}
    /\ creators = NoCreators
    /\ inflight = NoInflight

PrioPush ==
    /\ nPush < MaxPushPrio
    /\ \E request \in PrioRequests, priority \in Priorities, fail \in BOOLEAN :
          /\ store[<<priority, SlotAsPath(scheduler_slot(request).slot)>>] = <<>>
          /\ Push(request, priority, fail)
    /\ UNCHANGED <<hist, preClose>>
    /\ UNCHANGED <<twin, files, creators, inflight>>

PrioPop ==
    /\ Pop
    /\ UNCHANGED <<hist, preClose>>
    /\ UNCHANGED <<twin, files, creators, inflight>>

NextPrio == PrioPush \/ PrioPop

SpecPrio == InitPrio /\ [][NextPrio]_vars

(***************************************************************************)
(* SpecRR: three slots, one priority, with the history of the pops.        *)
(***************************************************************************)
InitRR ==
    /\ InitWith({"memory", "disk"}, {"fifo", "lifo"})
    /\ twin = NoTwin
    /\ files = {}
    /\ creators = NoCreators
    /\ inflight = NoInflight

\* what a pop finds: the rotation and the size of every slot's queue
Found(q) ==
    [rot |-> q.slots,
     sizes |-> [s \in DOMAIN q.pqueues |-> PQLen(q.pqueues[s], q.store)]]

RRDoPush ==
    /\ nPush < MaxPushRR
    /\ \E request \in RRRequests, priority \in OnePriority, fail \in BOOLEAN :
          Push(request, priority, fail)
    /\ hist' = <<>>
    /\ preClose' = NoQ
    /\ UNCHANGED <<twin, files, creators, inflight>>

RRDoPop ==
    /\ Pop
    /\ hist' = IF slots = <<>> THEN hist
               ELSE (IF Len(hist) < MaxHist THEN hist ELSE <<>>)
                    \o <<[found |-> Found(Q), slot |-> last'.slot,
                          key |-> last'.key,
                          returned |-> last'.request # NoRequest]>>
    /\ preClose' = preClose
    /\ UNCHANGED <<twin, files, creators, inflight>>

RRDoClose ==
    /\ Close
    /\ hist' = <<>>
    /\ preClose' = Q
    /\ UNCHANGED <<twin, files, creators, inflight>>

RRDoReopen ==
    /\ Reopen
    /\ hist' = <<>>
    /\ preClose' = preClose
    /\ UNCHANGED <<twin, files, creators, inflight>>

NextRR == RRDoPush \/ RRDoPop \/ RRDoClose \/ RRDoReopen

SpecRR == InitRR /\ [][NextRR]_vars

(***************************************************************************)
(* SpecTie: one slot, one priority, three requests; twin.q is a queue over *)
(* the other backend that is given every call the queue is given.  A push  *)
(* can fail in the container of the one of the two that is on disk, and    *)
(* then goes through on the other.  twin.pending and twin.other are the    *)
(* requests each of the two accepted and has yet to return, oldest first.  *)
(***************************************************************************)
OtherBackend(b) == IF b = "memory" THEN "disk" ELSE "memory"

InitTie ==
    /\ InitWith({"memory", "disk"}, {"fifo", "lifo"})
    /\ twin = [q |-> [slots |-> <<>>, pqorder |-> <<>>, pqueues |-> EmptyPqueues,
                      store |-> [k \in AllKeys |-> <<>>]],
               pending |-> <<>>, other |-> <<>>]
    /\ files = {}
    /\ creators = NoCreators
    /\ inflight = NoInflight

TiePush ==
    /\ nPush < MaxPushTie
    /\ \E request \in TieRequests, priority \in OnePriority, fail \in BOOLEAN :
          /\ Push(request, priority, fail /\ backend = "disk")
          /\ twin' = [q |-> RRPush(OtherBackend(backend), twin.q, request,
                                   priority, fail /\ backend = "memory").q,
                      pending |-> IF fail /\ backend = "disk" THEN twin.pending
                                  ELSE Append(twin.pending, request),
                      other |-> IF fail /\ backend = "memory" THEN twin.other
                                ELSE Append(twin.other, request)]
    /\ UNCHANGED <<hist, preClose, files, creators, inflight>>

TiePop ==
    /\ Pop
    /\ twin' = [q |-> RRPop(tiebreak, twin.q).q,
                pending |-> IF twin.pending = <<>> THEN <<>>
                            ELSE IF tiebreak = "fifo" THEN Tail(twin.pending)
                            ELSE SubSeq(twin.pending, 1, Len(twin.pending) - 1),
                other |-> IF twin.other = <<>> THEN <<>>
                          ELSE IF tiebreak = "fifo" THEN Tail(twin.other)
                          ELSE SubSeq(twin.other, 1, Len(twin.other) - 1)]
    /\ UNCHANGED <<hist, preClose, files, creators, inflight>>

NextTie == TiePush \/ TiePop

SpecTie == InitTie /\ [][NextTie]_vars

(***************************************************************************)
(* SpecUnique: unique_files_queue, core/queues.py:13-23.  Two runs of      *)
(* UniqueFilesQueue.__init__, in one process one after the other or in     *)
(* processes that share the directory and take their steps in any order.   *)
(* A path is the sequence of its parts between "-": path + "-" + hex       *)
(* appends a part, so that "q" extended by u1 is the base path "q-u1".     *)
(* uuid4().hex is any of Uuids.  os.path.exists(path) and the creation of  *)
(* the file by the queue class's __init__ are separate steps.              *)
(***************************************************************************)
queueVars == <<backend, tiebreak, alive, closed, reused, slots, pqorder, pqueues,
          store, snap,
               last, nPush, nClose, nPushed, nPopped, hist, preClose>>

\* the values uuid.uuid4().hex takes
Uuids == {"u1", "u2"}

\* the base paths handed to the wrapper
BasePaths == {<<"q">>, <<"q", "u1">>}

\* the paths that may exist on disk before the first step
InitialPaths == {<<"q", "u1">>, <<"q", "u2">>, <<"q", "u1", "u1">>}

Creators == {"run1", "run2"}

\* core/queues.py:17, 19: path + "-" + uuid.uuid4().hex
WithSuffix(path, hex) == Append(path, hex)

InitUnique ==
    /\ InitWith({"disk"}, {"fifo"})
    /\ twin = NoTwin
    /\ inflight = NoInflight
    /\ files \in SUBSET InitialPaths
    /\ creators = [p \in Creators |->
                      [pc |-> "idle", base |-> <<>>, path |-> <<>>, found |-> FALSE]]

\* core/queues.py:16-17: __init__(path) is entered and the first suffix appended
UniqueBegin(p) ==
    /\ creators[p].pc = "idle"
    /\ \E base \in BasePaths, hex \in Uuids :
          creators' = [creators EXCEPT ![p] =
                          [pc |-> "exists", base |-> base,
                           path |-> WithSuffix(base, hex), found |-> FALSE]]
    /\ UNCHANGED <<files, queueVars, twin, inflight>>

\* core/queues.py:18-19: one evaluation of the loop condition, and of the body
UniqueExists(p) ==
    /\ creators[p].pc = "exists"
    /\ IF creators[p].path \in files
       THEN \E hex \in Uuids :
               creators' = [creators EXCEPT ![p].path = WithSuffix(creators[p].path, hex)]
       ELSE creators' = [creators EXCEPT ![p].pc = "init"]
    /\ UNCHANGED <<files, queueVars, twin, inflight>>

\* core/queues.py:21: super().__init__(path) opens the path, creating it if missing;
\* found says that the path was there already
UniqueCreate(p) ==
    /\ creators[p].pc = "init"
    /\ creators' = [creators EXCEPT ![p].pc = "done",
                                    ![p].found = creators[p].path \in files]
    /\ files' = files \cup {creators[p].path}
    /\ UNCHANGED <<queueVars, twin, inflight>>

NextUnique == \E p \in Creators : UniqueBegin(p) \/ UniqueExists(p) \/ UniqueCreate(p)

SpecUnique == InitUnique /\ [][NextUnique]_vars

(***************************************************************************)
(* SpecDA: the downloader-aware queue.  It keeps the slots, the priority   *)
(* queues and push of RoundRobinQueue; its pop takes, instead of the head  *)
(* of the rotation, the slot with the fewest requests in transit, the      *)
(* earliest in the rotation among equals.  inflight counts, by slot, the   *)
(* start-of-transit notifications less the end-of-transit notifications;   *)
(* a slot without notification counts as zero.                             *)
(***************************************************************************)
InflightOf(counts, slot) == DictGet(counts, slot, 0)

RECURSIVE SumInflight(_, _)
SumInflight(counts, ss) ==
    IF ss = {} THEN 0
    ELSE LET s == CHOOSE x \in ss : TRUE
         IN counts[s] + SumInflight(counts, ss \ {s})

\* the place in the rotation of the slot that the pop takes
DASelect(rot, counts) ==
    CHOOSE i \in 1 .. Len(rot) :
        \A j \in 1 .. Len(rot) :
            \/ InflightOf(counts, rot[i]) < InflightOf(counts, rot[j])
            \/ InflightOf(counts, rot[i]) = InflightOf(counts, rot[j]) /\ i <= j

\* a variant of DAPop: the head of the rotation whatever is in transit (the pop
\* of RoundRobinQueue)
DAPopHead(order, q, counts) == RRPop(order, q)

\* pop of the downloader-aware queue: [q, request, slot, key]
DAPop(order, q, counts) ==
    IF q.slots = <<>>
    THEN [q |-> q, request |-> NoRequest, slot |-> NoneVal, key |-> NoKey]
    ELSE LET i == DASelect(q.slots, counts)
             slot == q.slots[i]
             rest == RemoveAt(q.slots, i)
             r == PQPop(order, q.pqueues[slot], q.store)
             keep == PQLen(r.pq, r.store) > 0
         IN [q |-> [slots |-> IF keep THEN Append(rest, slot) ELSE rest,
                    pqorder |-> IF keep THEN q.pqorder ELSE DictDel(q.pqorder, slot),
                    pqueues |-> IF keep THEN [q.pqueues EXCEPT ![slot] = r.pq]
                                ELSE [s \in DOMAIN q.pqueues \ {slot} |-> q.pqueues[s]],
                    store |-> r.store],
             request |-> r.m, slot |-> slot, key |-> r.key]

InitDA ==
    /\ InitWith({"memory"}, {"fifo"})
    /\ twin = NoTwin
    /\ files = {}
    /\ creators = NoCreators
    /\ inflight = NoInflight

DAPush ==
    /\ nPush < MaxPushDA
    /\ \E request \in DARequests, priority \in OnePriority :
          Push(request, priority, FALSE)
    /\ UNCHANGED <<hist, preClose, twin, files, creators, inflight>>

DADoPop ==
    /\ alive
    /\ LET r == DAPop(tiebreak, Q, inflight)
       IN /\ SetQ(r.q)
          /\ last' = Call("pop", NoSnap, "", r.request, r.slot, r.key)
          /\ nPopped' = IF r.request # NoRequest THEN nPopped + 1 ELSE nPopped
    /\ snap' = NoSnap
    /\ UNCHANGED <<backend, tiebreak, alive, closed, reused, nPush, nClose, nPushed>>
    /\ UNCHANGED <<hist, preClose, twin, files, creators, inflight>>

\* the notification that a request of the slot has begun transit
DAStart ==
    /\ \E slot \in AllSlots :
          /\ SumInflight(inflight, DOMAIN inflight) < MaxInflight
          /\ inflight' = DictSet(inflight, slot, InflightOf(inflight, slot) + 1)
    /\ UNCHANGED <<queueVars, twin, files, creators>>

\* the notification that a request of the slot has completed transit; a slot with
\* nothing in transit is forgotten
DAComplete ==
    /\ \E slot \in DOMAIN inflight :
          /\ inflight[slot] > 0
          /\ inflight' = IF inflight[slot] = 1
                         THEN [s \in DOMAIN inflight \ {slot} |-> inflight[s]]
                         ELSE [inflight EXCEPT ![slot] = inflight[slot] - 1]
    /\ UNCHANGED <<queueVars, twin, files, creators>>

NextDA == DAPush \/ DADoPop \/ DAStart \/ DAComplete

SpecDA == InitDA /\ [][NextDA]_vars

(***************************************************************************)
(* Helpers of the properties.                                              *)
(***************************************************************************)
Range(seq) == { seq[i] : i \in 1 .. Len(seq) }

\* the stored priority keys of a slot: those whose container has entries
StoredKeys(q, slot) ==
    IF slot \in DOMAIN q.pqueues
    THEN {k \in q.pqueues[slot].queues : Len(q.store[k]) > 0}
    ELSE {}

\* what the pops from q on return, idle of them having just gone once through a
\* part of the rotation and changed nothing but the rotation; after a whole turn
\* of that kind the queue is as it was, and no later pop returns an entry
RECURSIVE DrainFrom(_, _, _)
DrainFrom(order, q, idle) ==
    IF q.slots = <<>> \/ idle >= Len(q.slots) THEN <<>>
    ELSE LET r == RRPop(order, q)
             same == /\ r.request = NoRequest
                     /\ r.q.pqueues = q.pqueues
                     /\ r.q.store = q.store
         IN (IF r.request # NoRequest
             THEN <<[slot |-> r.slot, key |-> r.key, request |-> r.request]>>
             ELSE <<>>) \o DrainFrom(order, r.q, IF same THEN idle + 1 ELSE 0)

\* what consecutive pops return, for as long as any pop returns an entry:
\* [slot, key, request]
Drain(order, q) == DrainFrom(order, q, 0)

\* the entries of a drain that came from one slot, in the order they came
OfSlot(drained, slot) ==
    LET FromSlot(e) == e.slot = slot
    IN SelectSeq(drained, FromSlot)

\* how often an entry occurs in a drain
Count(drained, e) == Cardinality({i \in 1 .. Len(drained) : drained[i] = e})

(***************************************************************************)
(* C1.  In every reachable state a slot key is in the rotation if and only *)
(* if it has a priority queue in pqueues and that queue is non-empty.      *)
(* Fails: a push whose container push fails has already created the slot's *)
(* queue and put the slot in the rotation (pqueues.py:86-89).              *)
(***************************************************************************)
C1_RotationIffNonEmpty ==
    \A s \in AllSlots :
        (s \in Range(slots)) <=>
            (s \in DOMAIN pqueues /\ PQLen(pqueues[s], store) > 0)

(***************************************************************************)
(* C2.  Whenever a pop finds N slots in the rotation, each with at least   *)
(* one entry, the N consecutive pops that start with it each return an     *)
(* entry, each from a different slot and stored under that slot's path,    *)
(* and together they serve every one of the N slots: no slot is served     *)
(* twice before every other slot was served once.                          *)
(* Fails: a push that fails in a disk container leaves its slot in the     *)
(* rotation (pqueues.py:86-89); made on a queue after its close(), the     *)
(* container it attached holds the entries of before the close, which      *)
(* size() counts and the priority queue never serves, so the pop of that   *)
(* slot returns nothing.                                                   *)
(***************************************************************************)
C2_RoundRobin ==
    \A j \in 1 .. Len(hist) :
        LET rot == hist[j].found.rot
            sizes == hist[j].found.sizes
            N == Len(rot)
            hi == IF j + N - 1 <= Len(hist) THEN j + N - 1 ELSE Len(hist)
        IN (\A s \in Range(rot) : s \in DOMAIN sizes /\ sizes[s] >= 1) =>
              /\ \A i \in j .. hi :
                    /\ hist[i].returned
                    /\ hist[i].slot \in Range(rot)
                    /\ hist[i].key[2] = SlotAsPath(hist[i].slot)
              /\ \A i1, i2 \in j .. hi : i1 # i2 => hist[i1].slot # hist[i2].slot
              /\ hi = j + N - 1 => {hist[i].slot : i \in j .. hi} = Range(rot)

(***************************************************************************)
(* C3 as stated.  With pairwise distinct priorities stored in a slot, a    *)
(* pop returns the entry with the numerically highest priority stored in   *)
(* the slot, so consecutive pops return strictly decreasing priorities.    *)
(* Fails: the priority queue serves its lowest key first (curprio is the   *)
(* min of the keys, pqueues.py:60).                                        *)
(***************************************************************************)
C3_HighestFirst ==
    [][/\ (last'.op = "pop" /\ slots # <<>> /\ StoredKeys(Q, Head(slots)) # {}) =>
             /\ last'.request # NoRequest
             /\ last'.key \in StoredKeys(Q, Head(slots))
             /\ \A k \in StoredKeys(Q, Head(slots)) : k[1] <= last'.key[1]
       /\ (last.op = "pop" /\ last.request # NoRequest
             /\ last'.op = "pop" /\ last'.request # NoRequest) =>
             last'.key[1] < last.key[1]]_vars

(***************************************************************************)
(* C3 amended.  With pairwise distinct priorities stored in a slot, a pop  *)
(* returns the entry with the numerically lowest priority argument stored  *)
(* in the slot, so consecutive pops return strictly increasing priority    *)
(* arguments: pushing [-2,1,-1,0,2] pops [-2,-1,0,1,2].                    *)
(***************************************************************************)
C3_LowestFirst ==
    [][/\ (last'.op = "pop" /\ slots # <<>> /\ StoredKeys(Q, Head(slots)) # {}) =>
             /\ last'.request # NoRequest
             /\ last'.key \in StoredKeys(Q, Head(slots))
             /\ \A k \in StoredKeys(Q, Head(slots)) : last'.key[1] <= k[1]
       /\ (last.op = "pop" /\ last.request # NoRequest
             /\ last'.op = "pop" /\ last'.request # NoRequest) =>
             last'.key[1] > last.key[1]]_vars

C3_Witness ==
    /\ last.op = "pop"
    /\ last.request # NoRequest
    /\ last.key[1] = MaxPrio
    /\ nPushed = 5
    /\ nPopped = 5
    /\ nPush = 5
    /\ slots = <<>>

(***************************************************************************)
(* C4 as stated.  After any interleaving of push, pop and close calls      *)
(* size() is the number of requests pushed minus the number popped.        *)
(* Fails: close() clears pqueues, so size() is 0 whatever was pending.     *)
(***************************************************************************)
C4_SizeIsPushedMinusPopped ==
    (alive /\ last.op \in {"push", "pop", "close"}) =>
        RRLen(Q) = nPushed - nPopped

(***************************************************************************)
(* C4 amended.  After any interleaving of push and pop calls, failed       *)
(* pushes and empty pops included, size() is the number of requests pushed *)
(* minus the number popped; when close() returns, size() is 0.             *)
(***************************************************************************)
C4_SizeUntilClose ==
    /\ (alive /\ nClose = 0) => RRLen(Q) = nPushed - nPopped
    /\ last.op = "close" => RRLen(Q) = 0

C4_Witness ==
    /\ nClose = 0
    /\ last.op = "pop"
    /\ nPushed = 3
    /\ nPopped = 2
    /\ RRLen(Q) = 1

(***************************************************************************)
(* C5.  On the disk backend, when a queue that was pushed to and popped    *)
(* from is closed (no queue of the run having been used after its          *)
(* close()), the queue constructed from the snapshot that close()          *)
(* returned holds what the closed queue held: size() is the same,          *)
(* a drain returns the same multiset of requests and, within each slot,    *)
(* the same sequence of (priority key, request) as a drain of the queue    *)
(* that was closed, and every (slot, priority key) that had entries at     *)
(* close is attached again to the container that holds those entries.      *)
(***************************************************************************)
C5_RoundTrip ==
    (backend = "disk" /\ alive /\ nClose > 0 /\ ~reused
        /\ last.op = "init" /\ last.arg.kind = "dict") =>
        LET before == Drain(tiebreak, preClose)
            after == Drain(tiebreak, Q)
        IN /\ RRLen(Q) = RRLen(preClose)
           /\ Len(after) = Len(before)
           /\ \A e \in Range(before) \cup Range(after) :
                 Count(after, e) = Count(before, e)
           /\ \A s \in AllSlots : OfSlot(after, s) = OfSlot(before, s)
           /\ \A s \in DOMAIN preClose.pqueues :
                 \A k \in StoredKeys(preClose, s) :
                    /\ s \in DOMAIN pqueues
                    /\ k \in pqueues[s].queues
                    /\ store[k] = preClose.store[k]

C5_Witness ==
    /\ backend = "disk"
    /\ alive
    /\ ~reused
    /\ nClose = 1
    /\ last.op = "init"
    /\ last.arg.kind = "dict"
    /\ RRLen(Q) = 3
    /\ Len(slots) = 2
    /\ \E s \in DOMAIN pqueues : Cardinality(StoredKeys(Q, s)) = 2
    /\ Len(Drain(tiebreak, Q)) = 3

(***************************************************************************)
(* C6 as stated.  Construction from any snapshot that is not a mapping, a  *)
(* flat list empty or not, fails with ValueError and loads no slot.        *)
(* Fails: an empty list is false, and pqueues.py:70-71 returns before the  *)
(* isinstance check.                                                       *)
(***************************************************************************)
C6_AnyListRejected ==
    (last.op = "init" /\ last.arg.kind = "list") =>
        /\ last.raised = "ValueError"
        /\ ~alive
        /\ slots = <<>>
        /\ pqueues = EmptyPqueues

(***************************************************************************)
(* C6 amended.  Construction from a non-empty flat list fails with         *)
(* ValueError and loads no slot; construction from an empty flat list      *)
(* raises nothing and gives an empty queue.                                *)
(***************************************************************************)
C6_NonEmptyListRejected ==
    (last.op = "init" /\ last.arg.kind = "list") =>
        /\ slots = <<>>
        /\ pqueues = EmptyPqueues
        /\ IF Len(last.arg.items) > 0
           THEN last.raised = "ValueError" /\ ~alive
           ELSE last.raised = "" /\ alive

C6_Witness ==
    /\ last.op = "init"
    /\ last.arg = ListSnapshot(<<0, 1>>)
    /\ last.raised = "ValueError"
    /\ nClose = 1

(***************************************************************************)
(* C9.  A push of an object that is neither a Request nor a dict raises    *)
(* ValueError and changes nothing: the rotation, pqueues (and its key      *)
(* order), every container and size() are what they were.                 *)
(***************************************************************************)
C9_InvalidRequestLeavesQueue ==
    [][(last'.op = "push" /\ last'.request.cls \notin {"Request", "dict"}) =>
          /\ last'.raised = "ValueError"
          /\ slots' = slots
          /\ pqorder' = pqorder
          /\ pqueues' = pqueues
          /\ store' = store
          /\ RRLen(Q)' = RRLen(Q)
          /\ nPushed' = nPushed]_vars

C9_Witness ==
    /\ last.op = "push"
    /\ last.request = ReqOther
    /\ last.raised = "ValueError"
    /\ Len(slots) = 2
    /\ RRLen(Q) = 2

(***************************************************************************)
(* C10.  After a push that accepted the request, the request's metadata    *)
(* holds a slot key that is not None and is the slot the entry was stored  *)
(* under, and resolving the request again gives that slot.                 *)
(* Fails for a dict without a 'meta' item: the slot is written into the    *)
(* default dict() of pqueues.py:29, which the request does not hold.       *)
(***************************************************************************)
C10_SlotWrittenBack ==
    (last.op = "push" /\ last.raised # "ValueError") =>
        /\ "meta" \in DOMAIN last.request.fields
        /\ DictGet(last.request.fields.meta, SCHEDULER_SLOT_META_KEY, NoneVal) # NoneVal
        /\ DictGet(last.request.fields.meta, SCHEDULER_SLOT_META_KEY, NoneVal) = last.slot
        /\ scheduler_slot(last.request).slot = last.slot
        /\ last.key = <<last.key[1], SlotAsPath(last.slot)>>

(***************************************************************************)
(* C7.  The slot at the head of the rotation is the one a pop selects, and *)
(* the pop moves every other slot one place towards the head; a push, to   *)
(* an active or to a new slot, accepted or not, leaves every slot of the   *)
(* rotation at its place.  So a slot with k slots ahead of it is selected  *)
(* by the (k+1)-th following pop, whatever is pushed in between; and in a  *)
(* run of pops the slot a pop found at place k+1 is the one that the k-th  *)
(* pop after it selects.                                                   *)
(***************************************************************************)
C7_NoStarvation ==
    /\ [][/\ (last'.op = "pop" /\ slots # <<>>) =>
                /\ last'.slot = Head(slots)
                /\ Len(slots') >= Len(slots) - 1
                /\ \A i \in 2 .. Len(slots) : slots'[i - 1] = slots[i]
          /\ last'.op = "push" =>
                /\ Len(slots') >= Len(slots)
                /\ \A i \in 1 .. Len(slots) : slots'[i] = slots[i]]_vars
    /\ [](\A j \in 1 .. Len(hist) :
             \A i \in 1 .. Len(hist[j].found.rot) :
                j + i - 1 <= Len(hist) =>
                   hist[j + i - 1].slot = hist[j].found.rot[i])

C7_Witness ==
    /\ last.op = "pop"
    /\ Len(hist) = 3
    /\ hist[1].found.rot = <<"a", "foo.com", "b:80">>
    /\ last.slot = "b:80"
    /\ nPushed = 4

(***************************************************************************)
(* C8.  When a pop finds K >= 2 slots with entries in the rotation, each   *)
(* with the same number m of entries, right after the pushes or after a    *)
(* close and a reopen from the snapshot (no queue of the run having been   *)
(* used after its close()), then in the pops that follow                   *)
(* every pop of one of these slots returns an entry, no two consecutive    *)
(* returned entries come from the same slot, no slot is served more than m *)
(* times, and once the rotation is empty every slot was served exactly m   *)
(* times.  (A slot left without entries by a failed push may stand in the  *)
(* rotation as well; its pop returns nothing.)                             *)
(***************************************************************************)
C8_BalancedDrain ==
    \A j \in 1 .. Len(hist) :
        LET rot == hist[j].found.rot
            sizes == hist[j].found.sizes
            filled == {s \in Range(rot) : s \in DOMAIN sizes /\ sizes[s] >= 1}
            Returned(h) == h.returned
            served == SelectSeq(SubSeq(hist, j, Len(hist)), Returned)
            Visits(s) == Cardinality({i \in 1 .. Len(served) : served[i].slot = s})
        IN (/\ ~reused
            /\ Cardinality(filled) >= 2
            /\ \A s, t \in filled : sizes[s] = sizes[t]) =>
              /\ \A i \in j .. Len(hist) : hist[i].returned <=> hist[i].slot \in filled
              /\ \A i \in 1 .. Len(served) - 1 : served[i].slot # served[i + 1].slot
              /\ \A s \in filled : Visits(s) <= sizes[s]
              /\ slots = <<>> => \A s \in filled : Visits(s) = sizes[s]

C8_Witness ==
    /\ backend = "disk"
    /\ nClose = 1
    /\ ~closed
    /\ ~reused
    /\ slots = <<>>
    /\ Len(hist) = 4
    /\ Len(hist[1].found.rot) = 2
    /\ \A s \in Range(hist[1].found.rot) : hist[1].found.sizes[s] = 2

(***************************************************************************)
(* C11.  On the disk backend, construction from a mapping in which some    *)
(* slot has no priority key, or a priority key whose container holds no    *)
(* entry, raises an error and loads nothing: no slot is left in the        *)
(* rotation with an empty priority queue.                                  *)
(* Fails: pqueues.py:79-81 loads every slot of the mapping as it is; the   *)
(* mapping that close() returns after a failed push has such a slot.       *)
(***************************************************************************)
C11_InconsistentSnapshotRejected ==
    [][(/\ backend = "disk"
        /\ last'.op = "init"
        /\ last'.arg.kind = "dict"
        /\ \E s \in Range(last'.arg.keys) :
              \/ last'.arg.prios[s] = {}
              \/ \E k \in last'.arg.prios[s] : store[k] = <<>>) =>
          /\ last'.raised # ""
          /\ ~alive'
          /\ slots' = <<>>
          /\ pqueues' = EmptyPqueues]_vars

(***************************************************************************)
(* C15.  close() returns a mapping whose keys are exactly the slots that   *)
(* were active, each mapped to exactly the priority keys that had entries  *)
(* in the slot, never to an empty list; after close() the rotation and     *)
(* pqueues are empty, size() is 0 and pop() returns nothing.               *)
(* Fails: a slot that a failed push left with an empty priority queue (C1) *)
(* is a key of the mapping, mapped to an empty list.                       *)
(***************************************************************************)
C15_CloseSnapshot ==
    last.op = "close" =>
        /\ snap.kind = "dict"
        /\ Range(snap.keys) = DOMAIN preClose.pqueues
        /\ Range(snap.keys) = Range(preClose.slots)
        /\ \A s \in Range(snap.keys) :
              /\ snap.prios[s] = StoredKeys(preClose, s)
              /\ snap.prios[s] # {}
        /\ slots = <<>>
        /\ pqueues = EmptyPqueues
        /\ RRLen(Q) = 0
        /\ RRPop(tiebreak, Q).request = NoRequest

(***************************************************************************)
(* C16.  A push to a slot that has no priority queue (never seen, or       *)
(* retired when it became empty) appends the slot at the tail of the       *)
(* rotation, behind every slot that is active; a push to an active slot    *)
(* leaves the rotation as it is; either way the priority queue and the     *)
(* containers of every other slot are what they were.                      *)
(***************************************************************************)
C16_PushFrame ==
    [][last'.op = "push" =>
          /\ IF last'.slot \in DOMAIN pqueues
             THEN slots' = slots
             ELSE slots' = Append(slots, last'.slot)
          /\ \A t \in DOMAIN pqueues \ {last'.slot} :
                /\ t \in DOMAIN pqueues'
                /\ pqueues'[t] = pqueues[t]
                /\ \A k \in pqueues[t].queues : store'[k] = store[k]]_vars

C16_Witness ==
    /\ last.op = "push"
    /\ last.slot = "a"
    /\ last.raised = ""
    /\ nPushed = 4
    /\ nPopped = 1
    /\ RRLen(Q) = 3
    /\ slots = <<"b:80", "foo.com", "a">>

(***************************************************************************)
(* C17.  A pop of a queue whose size() is positive returns a request and   *)
(* lowers size() by one; a pop of a queue whose size() is 0 returns        *)
(* nothing and leaves no slot in the rotation or in pqueues.               *)
(* Fails: a slot that a failed push left with an empty priority queue (C1) *)
(* has its turn in the rotation, and its pop returns nothing whatever the  *)
(* other slots hold.                                                       *)
(***************************************************************************)
C17_PopEmptyOnlyWhenNothingPending ==
    [][last'.op = "pop" =>
          IF RRLen(Q) > 0
          THEN /\ last'.request # NoRequest
               /\ RRLen(Q)' = RRLen(Q) - 1
          ELSE /\ last'.request = NoRequest
               /\ slots' = <<>>
               /\ pqueues' = EmptyPqueues]_vars

\* the slots that a drain serves, in the order it serves them
SlotsServed(drained) == [i \in 1 .. Len(drained) |-> drained[i].slot]

(***************************************************************************)
(* C18 as stated.  On the disk backend the queue constructed from the      *)
(* snapshot of close() has the rotation that the closed queue had, and a   *)
(* drain of it serves the slots in the order in which a drain of the       *)
(* closed queue would have served them.                                    *)
(* Fails: close() collects the snapshot in the order of the keys of        *)
(* pqueues (pqueues.py:106), the order in which the slots became active,   *)
(* and pops rotate _slots without touching that order.                     *)
(***************************************************************************)
C18_RotationSurvives ==
    (backend = "disk" /\ alive /\ nClose > 0
        /\ last.op = "init" /\ last.arg.kind = "dict") =>
        /\ slots = preClose.slots
        /\ SlotsServed(Drain(tiebreak, Q)) = SlotsServed(Drain(tiebreak, preClose))

(***************************************************************************)
(* C18 amended.  The queue constructed from the snapshot of close() has    *)
(* the slots that the closed queue had, each once, in the order of the     *)
(* keys of the snapshot: the order in which the slots became active in the *)
(* closed queue, which is the rotation before close() only while no pop    *)
(* has moved a slot behind one that became active later.                   *)
(***************************************************************************)
C18_RotationIsSnapshotOrder ==
    (alive /\ nClose > 0 /\ last.op = "init" /\ last.arg.kind = "dict") =>
        /\ slots = last.arg.keys
        /\ slots = preClose.pqorder
        /\ Range(slots) = Range(preClose.slots)
        /\ Len(slots) = Len(preClose.slots)
        /\ (\A i, j \in 1 .. Len(preClose.slots) :
               i < j => \E a, b \in 1 .. Len(preClose.pqorder) :
                           /\ a < b
                           /\ preClose.pqorder[a] = preClose.slots[i]
                           /\ preClose.pqorder[b] = preClose.slots[j])
             => slots = preClose.slots

C18_Witness ==
    /\ backend = "disk"
    /\ alive
    /\ nClose = 1
    /\ last.op = "init"
    /\ last.arg.kind = "dict"
    /\ preClose.slots = <<"foo.com", "a">>
    /\ slots = <<"a", "foo.com">>
    /\ RRLen(Q) = 2

(***************************************************************************)
(* C19.  In every reachable state the rotation holds no slot twice, the    *)
(* slots of the rotation are exactly the keys of pqueues (in pqorder, each *)
(* once), so that the pop of the head of the rotation finds its priority   *)
(* queue, and every priority key of a slot's priority queue, and with it   *)
(* every entry stored there, carries the slot path of that slot; the       *)
(* entries themselves resolve to the slot.                                 *)
(***************************************************************************)
C19_RotationMatchesMapping ==
    /\ \A i, j \in 1 .. Len(slots) : i # j => slots[i] # slots[j]
    /\ Range(slots) = DOMAIN pqueues
    /\ Range(pqorder) = DOMAIN pqueues
    /\ Len(pqorder) = Cardinality(DOMAIN pqueues)
    /\ slots # <<>> => Head(slots) \in DOMAIN pqueues
    /\ \A s \in DOMAIN pqueues :
          \A k \in pqueues[s].queues :
             /\ k[2] = SlotAsPath(s)
             /\ \A i \in 1 .. Len(store[k]) : scheduler_slot(store[k][i]).slot = s

\* a push to a closed queue, whose container holds an entry of before the close
C19_Witness ==
    /\ backend = "disk"
    /\ closed
    /\ last.op = "push"
    /\ last.raised = ""
    /\ nPopped = 1
    /\ nPushed = 3
    /\ Len(slots) = 1
    /\ \E k \in pqueues[slots[1]].queues : Len(store[k]) = 2

C13_UniquePaths ==
    /\ \A p \in Creators :
          creators[p].pc \in {"init", "done"} =>
             /\ Len(creators[p].path) > Len(creators[p].base)
             /\ SubSeq(creators[p].path, 1, Len(creators[p].base)) = creators[p].base
    /\ \A p \in Creators : creators[p].pc = "done" => ~creators[p].found
    /\ \A p1, p2 \in Creators :
          (p1 # p2 /\ creators[p1].pc = "done" /\ creators[p2].pc = "done") =>
             creators[p1].path # creators[p2].path

(***************************************************************************)
(* C14.  A pop of the downloader-aware queue takes a slot of the rotation  *)
(* that has the fewest requests in transit (a slot without notification    *)
(* counting as zero), and of the slots with that count the one that is     *)
(* earliest in the rotation: with counts 0, 0, 1, 2 along the rotation it  *)
(* takes the first slot.  (A step that is not a notification leaves        *)
(* inflight as it is; a notification changes it.)                          *)
(***************************************************************************)
C14_FewestInflightFirst ==
    [][(last'.op = "pop" /\ inflight' = inflight /\ slots # <<>>) =>
          \E i \in 1 .. Len(slots) :
             /\ last'.slot = slots[i]
             /\ \A j \in 1 .. Len(slots) :
                   InflightOf(inflight, slots[i]) <= InflightOf(inflight, slots[j])
             /\ \A j \in 1 .. i - 1 :
                   InflightOf(inflight, slots[j]) > InflightOf(inflight, slots[i])
             /\ last'.request # NoRequest
             /\ last'.key[2] = SlotAsPath(slots[i])]_vars

C14_Witness ==
    /\ last.op = "pop"
    /\ last.slot = "b:80"
    /\ slots = <<"a", "foo.com", "">>
    /\ InflightOf(inflight, "a") = 1
    /\ InflightOf(inflight, "b:80") = 0
    /\ InflightOf(inflight, "foo.com") = 0
    /\ InflightOf(inflight, "") = 2
    /\ nPushed = 4
    /\ nPopped = 1

=============================================================================
